---- MODULE Spec2Model ----
(***************************************************************************)
(* State-machine model of the chameleon MCTS engine (src/src/mcts.rs) over *)
(* the Game trait (src/src/game.rs).                                       *)
(*                                                                         *)
(* A game is a finite acyclic graph of positions.  The game-state handle   *)
(* is the stack of positions played so far; hash() is the position on top. *)
(* An action of a position is its index in actions().  MonteCarloTree::step *)
(* and ::best_action are modelled statement by statement: one action per   *)
(* Game::play / Game::undo call and per node access, so that every point   *)
(* of a call is a state of the model.                                      *)
(***************************************************************************)
EXTENDS Integers, Sequences, FiniteSets, TLC

VARIABLES
  game,    \* the collaborator game: actions, player and utility per position
  nodes,   \* MonteCarloTree::nodes, position key -> [utility, visits]
  state,   \* the game-state handle (history of positions, current on top)
  pc,      \* position of the running call, or "idle" / "done" / "panic"
  call,    \* the call running or last returned: "none", "step", "best_action"
  frame,   \* the locals of the running call
  ret,     \* the value returned by the last best_action call
  entry,   \* the handle as it was passed to the running / last call
  nodes0,  \* the node table as it was when the running / last call began
  expanded,\* the handle at the moment step inserted a node (<<>>: no insertion)
  plays,   \* Game::play calls issued by the running / last call
  undos,   \* Game::undo calls issued by the running / last call
  steps,   \* number of step calls begun so far
  locks    \* the node mutexes whose guard is alive, in order of acquisition

vars == <<game, nodes, state, pc, call, frame, ret, entry, nodes0, expanded,
          plays, undos, steps, locks>>

----------------------------------------------------------------------------
(* Bounds of the model *)

\* step calls per behaviour
MaxSteps == 5

\* random playouts per expanded node (MonteCarloTree::new sets 255)
simulations_per_node == 2

----------------------------------------------------------------------------
(* Rust values *)

I16_MAX == 32767
I16_MIN == -32768

\* Option<T>
None == <<>>
Some(x) == <<x>>
unwrap(o) == o[1]

\* `a < b` on Option<T>: None is less than every Some
OptionLt(a, b) ==
  IF b = None THEN FALSE
  ELSE IF a = None THEN TRUE
  ELSE unwrap(a) < unwrap(b)

Player == {1, 2}

\* ExactUtility: Win(p) is the player p, Draw is 0
Draw == 0
Win(p) == p

\* Utility
Exact(e) == [tag |-> "Exact", val |-> e]
Approximate(v) == [tag |-> "Approximate", val |-> v]
Unknown == [tag |-> "Unknown", val |-> 0]

MonteCarloNode(u, v) == [utility |-> u, visits |-> v]

\* truncating division (towards zero), d > 0
TruncDiv(n, d) == IF n >= 0 THEN n \div d ELSE -((-n) \div d)

Abs(n) == IF n >= 0 THEN n ELSE -n

----------------------------------------------------------------------------
(* f32: IEEE 754 binary32, round to nearest, ties to even.                 *)
(* A value is [m, e] and stands for m * 2^e, with 2^23 <= |m| < 2^24 or    *)
(* m = 0 and e = 0.  The values of the engine lie within 2^-40 .. 2^17, so *)
(* no exponent leaves the normal range.                                    *)

F32(m, e) == [m |-> m, e |-> e]
f32_zero == F32(0, 0)

\* number of bits of n > 0
BitLen(n) == CHOOSE k \in 1..31 : n \div 2^(k - 1) = 1

\* the f32 nearest to (n + f) * 2^e, for n >= 0 and a fraction f in [0, 1)
\* that is not 0 exactly when sticky; sticky only with n >= 2^25
f32_round(n, e, sticky) ==
  IF n = 0 THEN f32_zero
  ELSE LET nb == BitLen(n)
       IN IF nb <= 24 THEN F32(n * 2^(24 - nb), e - (24 - nb))
          ELSE LET s == nb - 24
                   top == n \div 2^s
                   rem == n % 2^s
                   half == 2^(s - 1)
                   up == \/ rem > half
                         \/ rem = half /\ (sticky \/ top % 2 = 1)
                   m == IF up THEN top + 1 ELSE top
               IN IF m = 2^24 THEN F32(2^23, e + s + 1) ELSE F32(m, e + s)

f32_neg(x) == F32(-x.m, x.e)

\* `n as f32` for |n| < 2^24
f32_from(n) ==
  IF n >= 0 THEN f32_round(n, 0, FALSE) ELSE f32_neg(f32_round(-n, 0, FALSE))

\* x + y
f32_add(x, y) ==
  IF x.m = 0 THEN y
  ELSE IF y.m = 0 THEN x
  ELSE LET hi == IF x.e >= y.e THEN x ELSE y
           lo == IF x.e >= y.e THEN y ELSE x
           d == hi.e - lo.e
       IN IF d <= 6
          THEN LET sum == hi.m * 2^d + lo.m
               IN IF sum >= 0 THEN f32_round(sum, lo.e, FALSE)
                  ELSE f32_neg(f32_round(-sum, lo.e, FALSE))
          ELSE \* lo is cut to the 6 bits below hi, what is cut off is sticky
               LET k == d - 6
                   cut == IF k >= 25 THEN (IF lo.m > 0 THEN 0 ELSE -1)
                          ELSE lo.m \div 2^k
                   sticky == IF k >= 25 THEN TRUE ELSE lo.m % 2^k # 0
                   sum == hi.m * 64 + cut
               IN IF sum >= 0 THEN f32_round(sum, hi.e - 6, sticky)
                  ELSE IF sticky THEN f32_neg(f32_round(-sum - 1, hi.e - 6, TRUE))
                  ELSE f32_neg(f32_round(-sum, hi.e - 6, FALSE))

\* long division of a remainder r by d: quotient bits are appended to q until
\* q has 25 bits; yields <<q, exponent, remainder>>
RECURSIVE LongDiv(_, _, _, _)
LongDiv(q, r, d, e) ==
  IF q >= 2^24 THEN <<q, e, r>>
  ELSE IF 2 * r >= d THEN LongDiv(2 * q + 1, 2 * r - d, d, e - 1)
  ELSE LongDiv(2 * q, 2 * r, d, e - 1)

\* x / (d as f32) for an integer 0 < d < 2^16
f32_div(x, d) ==
  IF x.m = 0 THEN f32_zero
  ELSE LET n == Abs(x.m)
           qr == LongDiv(n \div d, n % d, d, x.e)
           mag == f32_round(qr[1], qr[2], qr[3] # 0)
       IN IF x.m > 0 THEN mag ELSE f32_neg(mag)

\* x * (c as f32) for an integer 0 < c < 2^16
f32_mul(x, c) ==
  IF x.m = 0 THEN f32_zero
  ELSE LET n == Abs(x.m)
           hi == (n \div 4096) * c
           lo == (n % 4096) * c
           mag == f32_round(hi + lo \div 4096, x.e + 12, lo % 4096 # 0)
       IN IF x.m > 0 THEN mag ELSE f32_neg(mag)

\* the integer nearest to x, halves away from zero (f32::round)
f32_nearest(x) ==
  IF x.e >= 0 THEN x.m * 2^(x.e)
  ELSE IF x.e <= -25 THEN 0
  ELSE LET d == 2^(-x.e)
           q == Abs(x.m) \div d
           up == IF 2 * (Abs(x.m) % d) >= d THEN q + 1 ELSE q
       IN IF x.m >= 0 THEN up ELSE -up

\* as_i16 rounding to the nearest integer: `x.round() as i16`
as_i16_round(x) ==
  LET t == f32_nearest(x)
  IN IF t > I16_MAX THEN I16_MAX ELSE IF t < I16_MIN THEN I16_MIN ELSE t

\* `x as i16`: towards zero, saturating
as_i16(x) ==
  LET t == IF x.e >= 0 THEN x.m * 2^(x.e)
           ELSE IF x.e <= -25 THEN 0
           ELSE TruncDiv(x.m, 2^(-x.e))
  IN IF t > I16_MAX THEN I16_MAX ELSE IF t < I16_MIN THEN I16_MIN ELSE t

----------------------------------------------------------------------------
(* The games searched *)

Pos == 1..5

Last(s) == s[Len(s)]
Front(s) == SubSeq(s, 1, Len(s) - 1)

\* action graphs: position -> ordered successor positions
Shapes ==
  { \* two levels with a transposition on position 5
    [p \in Pos |-> CASE p = 1 -> <<2, 3>> [] p = 2 -> <<4, 5>>
                     [] p = 3 -> <<5>> [] OTHER -> <<>>],
    \* three terminal successors of the root
    [p \in Pos |-> CASE p = 1 -> <<2, 3, 4>> [] OTHER -> <<>>],
    \* a chain
    [p \in Pos |-> CASE p = 1 -> <<2>> [] p = 2 -> <<3>> [] OTHER -> <<>>],
    \* a terminal successor before a successor with a move left
    [p \in Pos |-> CASE p = 1 -> <<2, 3>> [] p = 3 -> <<4>> [] OTHER -> <<>>] }

\* the positions a game can reach from position 1
Reachable(a) ==
  LET R1 == {1} \cup {a[1][j] : j \in 1..Len(a[1])}
  IN R1 \cup UNION {{a[p][j] : j \in 1..Len(a[p])} : p \in R1}

Outcomes == {Win(1), Win(2), Draw}

\* the outcomes of a game that a third player, who has no move in these
\* positions, may win as well
Outcomes3 == Outcomes \cup {Win(3)}

\* what utility() may report on a non-terminal position
Heuristics ==
  {Unknown, Approximate(16000), Approximate(I16_MAX), Approximate(-I16_MAX),
   Approximate(I16_MIN)}

\* The games: player 1 moves first; below, the players alternate in the games
\* of two successors and any player moves in the others.  Any outcome on the
\* terminal positions (the win of a third player too in the last shape),
\* utility() Exact exactly on the positions without actions and, in the
\* chain, possibly a heuristic on position 2.
GamesOf(a) ==
  LET term == {p \in Pos : a[p] = <<>>}
      inner == Pos \ term
  IN { [actions |-> a,
        player |-> [p \in Pos |-> IF p \in inner THEN pl[p] ELSE 1],
        utility |-> [p \in Pos |-> IF p \in term
                                   THEN Exact(IF p \in Reachable(a) THEN out[p] ELSE Draw)
                                   ELSE h[p]]] :
       pl \in {f \in [inner -> Player] :
                 /\ f[1] = 1
                 /\ Len(a[1]) = 2 => \A p \in inner \ {1} : f[p] = 2},
       out \in [term -> IF a[3] = <<4>> THEN Outcomes3 ELSE Outcomes],
       h \in {f \in [inner -> Heuristics] :
                \A p \in inner : f[p] # Unknown => p = 2 /\ Len(a[1]) = 1} }

\* games that break the contract: the chain whose last position, which has no
\* action, reports Unknown
BrokenGames ==
  { [actions |-> [p \in Pos |-> CASE p = 1 -> <<2>> [] p = 2 -> <<3>>
                                  [] OTHER -> <<>>],
     player |-> [p \in Pos |-> IF p = 2 THEN 2 ELSE 1],
     utility |-> [p \in Pos |-> CASE p = 2 -> h [] p \in {1, 3} -> Unknown
                                   [] OTHER -> Exact(Draw)]] :
    h \in {Unknown, Approximate(16000)} }

Games == UNION {GamesOf(a) : a \in Shapes} \cup BrokenGames

\* Game trait
hash(s) == Last(s)
actions(s) == game.actions[hash(s)]
current_player(s) == game.player[hash(s)]
utility(s) == game.utility[hash(s)]
play(s, action) == Append(s, actions(s)[action])
undo(s) == IF Len(s) > 1 THEN Front(s) ELSE s

----------------------------------------------------------------------------
(* Locals of a call *)

NoFrame ==
  [visited |-> <<>>, current_player |-> 0, parent_visits |-> 0, i |-> 0,
   best_action |-> None, best_exploitation |-> None, best_exact |-> None,
   utility |-> Unknown, node_player |-> 0, playout |-> 0, plys |-> 0,
   result |-> f32_zero, approximate_result |-> f32_zero, node |-> 0]

Init ==
  /\ game \in Games
  /\ nodes = <<>>
  /\ state = <<1>>
  /\ pc = "idle"
  /\ call = "none"
  /\ frame = NoFrame
  /\ ret = None
  /\ entry = <<>>
  /\ nodes0 = <<>>
  /\ expanded = <<>>
  /\ plays = 0
  /\ undos = 0
  /\ steps = 0
  /\ locks = <<>>

Idle == pc \in {"idle", "done"}

ghost == <<entry, nodes0, expanded, plays, undos>>

----------------------------------------------------------------------------
(* The caller, between calls: it owns the handle and moves it *)

\* moving the handle ends the observation of the last call
Forget ==
  /\ pc' = "idle"
  /\ call' = "none"
  /\ ret' = None
  /\ entry' = <<>>
  /\ nodes0' = <<>>
  /\ expanded' = <<>>
  /\ plays' = 0
  /\ undos' = 0

CallerPlay ==
  /\ Idle
  /\ \E action \in 1..Len(actions(state)) : state' = play(state, action)
  /\ Forget
  /\ UNCHANGED <<game, nodes, frame, steps, locks>>

CallerUndo ==
  /\ Idle
  /\ Len(state) > 1
  /\ state' = undo(state)
  /\ Forget
  /\ UNCHANGED <<game, nodes, frame, steps, locks>>

Begin(c, at) ==
  /\ Idle
  /\ call' = c
  /\ pc' = at
  /\ frame' = NoFrame
  /\ entry' = state
  /\ nodes0' = nodes
  /\ expanded' = <<>>
  /\ plays' = 0
  /\ undos' = 0

Return ==
  /\ pc' = "done"
  /\ frame' = NoFrame

\* Mutex::lock on the node of a key: a guard more, whatever is held already
\* (std's Mutex is not reentrant: a second lock() from the thread that holds
\* it never returns normally)
lock(key) == locks' = Append(locks, key)

\* the last guard taken goes out of scope
drop_guard == locks' = Front(locks)

----------------------------------------------------------------------------
(* MonteCarloTree::step *)

StepCall ==
  /\ Begin("step", "sel_loop")
  /\ steps < MaxSteps
  /\ steps' = steps + 1
  /\ ret' = None
  /\ UNCHANGED <<game, nodes, state, locks>>

\* 'selection: while let Some(node) = self.nodes.get(&state.hash())
SelLoop ==
  /\ pc = "sel_loop"
  /\ IF hash(state) \in DOMAIN nodes
     THEN /\ frame' = [frame EXCEPT !.node = hash(state),
                                    !.current_player = current_player(state),
                                    !.visited = Append(@, hash(state))]
          \* node.lock()
          /\ lock(hash(state))
          /\ pc' = "sel_visits"
     ELSE /\ pc' = "expand"
          /\ UNCHANGED <<frame, locks>>
  /\ UNCHANGED <<game, nodes, state, call, ret, ghost, steps>>

\* SelVisits with the guard bound to a local that lives through the scan
SelVisits_keep ==
  /\ pc = "sel_visits"
  /\ frame' = [frame EXCEPT !.parent_visits = nodes[frame.node].visits,
                            !.best_action = None,
                            !.best_exact = None,
                            !.i = 1]
  /\ pc' = "sel_for"
  /\ UNCHANGED <<game, nodes, state, call, ret, ghost, steps, locks>>

\* let parent_visits = node.lock().unwrap().visits; the guard is a temporary
\* of the statement; then the locals of the scan
SelVisits ==
  /\ pc = "sel_visits"
  /\ frame' = [frame EXCEPT !.parent_visits = nodes[frame.node].visits,
                            !.best_action = None,
                            !.best_exact = None,
                            !.i = 1]
  /\ drop_guard
  /\ pc' = "sel_for"
  /\ UNCHANGED <<game, nodes, state, call, ret, ghost, steps>>

\* for action in state.actions() { state.play(&action); ...
SelFor ==
  /\ pc = "sel_for"
  /\ IF frame.i <= Len(actions(state))
     THEN /\ state' = play(state, frame.i)
          /\ plays' = plays + 1
          \* if let Some(child) = ..get(..) { let child = child.lock().unwrap();
          /\ IF hash(state') \in DOMAIN nodes
             THEN lock(hash(state')) ELSE UNCHANGED locks
          /\ pc' = "sel_child"
     ELSE /\ pc' = "sel_after"
          /\ UNCHANGED <<state, plays, locks>>
  /\ UNCHANGED <<game, nodes, call, frame, ret, entry, nodes0, expanded, undos,
                 steps>>

\* better_exact never taking a draw for a win of another player
better_exact_nodraw(best_exact, exact_utility, player) ==
  IF best_exact = None THEN TRUE
  ELSE exact_utility # Draw /\ exact_utility = player

\* better_exact keeping the first exact utility found
better_exact_first(best_exact, exact_utility, player) == best_exact = None

\* the closure deciding whether a child's exact utility replaces best_exact
better_exact(best_exact, exact_utility, player) ==
  IF best_exact = None THEN TRUE
  ELSE LET best == unwrap(best_exact)
       IN IF exact_utility # Draw /\ exact_utility = player THEN TRUE
          ELSE IF best # Draw /\ exact_utility = Draw /\ best # player THEN TRUE
          ELSE FALSE

\* MissingChild undoing the move before it leaves the selection
MissingChild_undo ==
  /\ state' = undo(state)
  /\ undos' = undos + 1
  /\ pc' = "expand"
  /\ UNCHANGED frame

\* MissingChild skipping the child instead of leaving the selection
MissingChild_skip ==
  /\ frame' = [frame EXCEPT !.i = @ + 1]
  /\ state' = undo(state)
  /\ undos' = undos + 1
  /\ pc' = "sel_for"

\* the child has no node: } else { break 'selection; }
MissingChild ==
  /\ pc' = "expand"
  /\ UNCHANGED <<frame, state, undos>>

\* SelChild taking a child that holds Exact for an action to descend too
SelChild_exactbest ==
  /\ pc = "sel_child"
  /\ IF hash(state) \notin DOMAIN nodes
     THEN MissingChild /\ UNCHANGED locks
     ELSE LET child == nodes[hash(state)]
          IN \* the guard of the child lives to the end of the if let block
             /\ drop_guard
             /\ CASE child.utility.tag = "Approximate" ->
                    \* potential_value is an f32 built from ln(parent_visits)
                    \* and child.visits; the comparison with the best so far
                    \* is left open, except that None is below every value
                    /\ \E better \in BOOLEAN :
                         /\ frame.best_action = None => better
                         /\ frame' = [frame EXCEPT
                                        !.best_action =
                                          IF better THEN Some(frame.i) ELSE @,
                                        !.i = @ + 1]
                    /\ state' = undo(state)
                    /\ undos' = undos + 1
                    /\ pc' = "sel_for"
               [] child.utility.tag = "Exact" ->
                    /\ frame' = [frame EXCEPT
                                   !.best_exact =
                                     IF better_exact(@, child.utility.val,
                                                     frame.current_player)
                                     THEN Some(child.utility.val) ELSE @,
                                   !.best_action = Some(frame.i),
                                   !.i = @ + 1]
                    /\ state' = undo(state)
                    /\ undos' = undos + 1
                    /\ pc' = "sel_for"
               [] OTHER ->
                    \* Utility::Unknown => break 'selection
                    /\ pc' = "expand"
                    /\ UNCHANGED <<frame, state, undos>>
  /\ UNCHANGED <<game, nodes, call, ret, entry, nodes0, expanded, plays, steps>>

\* the body of the scan of one child, the handle being on the child
SelChild ==
  /\ pc = "sel_child"
  /\ IF hash(state) \notin DOMAIN nodes
     THEN MissingChild /\ UNCHANGED locks
     ELSE LET child == nodes[hash(state)]
          IN \* the guard of the child lives to the end of the if let block
             /\ drop_guard
             /\ CASE child.utility.tag = "Approximate" ->
                    \* potential_value is an f32 built from ln(parent_visits)
                    \* and child.visits; the comparison with the best so far
                    \* is left open, except that None is below every value
                    /\ \E better \in BOOLEAN :
                         /\ frame.best_action = None => better
                         /\ frame' = [frame EXCEPT
                                        !.best_action =
                                          IF better THEN Some(frame.i) ELSE @,
                                        !.i = @ + 1]
                    /\ state' = undo(state)
                    /\ undos' = undos + 1
                    /\ pc' = "sel_for"
               [] child.utility.tag = "Exact" ->
                    /\ frame' = [frame EXCEPT
                                   !.best_exact =
                                     IF better_exact(@, child.utility.val,
                                                     frame.current_player)
                                     THEN Some(child.utility.val) ELSE @,
                                   !.i = @ + 1]
                    /\ state' = undo(state)
                    /\ undos' = undos + 1
                    /\ pc' = "sel_for"
               [] OTHER ->
                    \* Utility::Unknown => break 'selection
                    /\ pc' = "expand"
                    /\ UNCHANGED <<frame, state, undos>>
  /\ UNCHANGED <<game, nodes, call, ret, entry, nodes0, expanded, plays, steps>>

\* SelAfter looking at best_exact before best_action
SelAfter_exactfirst ==
  /\ pc = "sel_after"
  /\ IF frame.best_exact # None
     THEN /\ lock(frame.node)
          /\ pc' = "sel_solve"
          /\ UNCHANGED <<state, plays>>
     ELSE IF frame.best_action # None
     THEN /\ state' = play(state, unwrap(frame.best_action))
          /\ plays' = plays + 1
          /\ pc' = "sel_loop"
          /\ UNCHANGED locks
     ELSE /\ pc' = "panic"
          /\ UNCHANGED <<state, plays, locks>>
  /\ UNCHANGED <<game, nodes, call, frame, ret, entry, nodes0, expanded, undos,
                 steps>>

\* after the scan: descend, or solve the node, or fail
SelAfter ==
  /\ pc = "sel_after"
  /\ IF frame.best_action # None
     THEN /\ state' = play(state, unwrap(frame.best_action))
          /\ plays' = plays + 1
          /\ pc' = "sel_loop"
          /\ UNCHANGED locks
     ELSE IF frame.best_exact # None
     THEN \* node.lock()
          /\ lock(frame.node)
          /\ pc' = "sel_solve"
          /\ UNCHANGED <<state, plays>>
     ELSE \* unreachable!("Visited a node with no successors")
          /\ pc' = "panic"
          /\ UNCHANGED <<state, plays, locks>>
  /\ UNCHANGED <<game, nodes, call, frame, ret, entry, nodes0, expanded, undos,
                 steps>>

\* SelSolve leaving the utility of the node as it was
SelSolve_nowrite ==
  /\ pc = "sel_solve"
  /\ drop_guard
  /\ IF Front(frame.visited) = <<>>
     THEN Return
     ELSE /\ pc' = "sel_back"
          /\ frame' = [frame EXCEPT !.visited = Front(@)]
  /\ UNCHANGED <<game, nodes, state, call, ret, ghost, steps>>

\* node.lock().unwrap().utility = Utility::Exact(best_exact); the guard is a
\* temporary of the statement; visited.pop(); if visited.is_empty() { return; }
SelSolve ==
  /\ pc = "sel_solve"
  /\ nodes' = [nodes EXCEPT ![frame.node].utility =
                              Exact(unwrap(frame.best_exact))]
  /\ drop_guard
  /\ IF Front(frame.visited) = <<>>
     THEN Return
     ELSE /\ pc' = "sel_back"
          /\ frame' = [frame EXCEPT !.visited = Front(@)]
  /\ UNCHANGED <<game, state, call, ret, ghost, steps>>

\* SelBack without its state.undo()
SelBack_noundo ==
  /\ pc = "sel_back"
  /\ frame' = [frame EXCEPT !.visited = Front(@)]
  /\ pc' = "sel_loop"
  /\ UNCHANGED <<game, nodes, state, call, ret, entry, nodes0, expanded, plays,
                 undos, steps, locks>>

\* state.undo(); visited.pop(); and around the selection loop again
SelBack ==
  /\ pc = "sel_back"
  /\ state' = undo(state)
  /\ undos' = undos + 1
  /\ frame' = [frame EXCEPT !.visited = Front(@)]
  /\ pc' = "sel_loop"
  /\ UNCHANGED <<game, nodes, call, ret, entry, nodes0, expanded, plays, steps, locks>>

\* Expand taking the utility the game reports, whatever it is
Expand_nosim ==
  /\ pc = "expand"
  /\ frame' = [frame EXCEPT !.utility = utility(state)]
  /\ pc' = "insert"
  /\ UNCHANGED <<game, nodes, state, call, ret, ghost, steps, locks>>

\* let utility = match state.utility() { Unknown => self.simulate(..), u => u }
Expand ==
  /\ pc = "expand"
  /\ IF utility(state) = Unknown
     THEN /\ frame' = [frame EXCEPT !.approximate_result = f32_zero,
                                    !.node_player = current_player(state),
                                    !.playout = 0]
          /\ pc' = "sim_loop"
     ELSE /\ frame' = [frame EXCEPT !.utility = utility(state)]
          /\ pc' = "insert"
  /\ UNCHANGED <<game, nodes, state, call, ret, ghost, steps, locks>>

----------------------------------------------------------------------------
(* MonteCarloTree::simulate *)

\* (approximate_result / simulations_per_node as f32 * i16::MAX as f32) as i16
quantize_mean(approximate_result) ==
  as_i16(f32_mul(f32_div(approximate_result, simulations_per_node), I16_MAX))

\* for _ in 0..playouts
SimLoop ==
  /\ pc = "sim_loop"
  /\ IF frame.playout < simulations_per_node
     THEN /\ frame' = [frame EXCEPT !.plys = 0]
          /\ pc' = "sim_play"
     ELSE /\ frame' = [frame EXCEPT
                         !.utility = Approximate(quantize_mean(frame.approximate_result))]
          /\ pc' = "insert"
  /\ UNCHANGED <<game, nodes, state, call, ret, ghost, steps, locks>>

\* the f32 a rollout breaks with, from its final utility
rollout_result(u, node_player) ==
  IF u.tag = "Exact"
  THEN IF u.val = Draw THEN f32_zero
       ELSE IF u.val = node_player THEN f32_from(1) ELSE f32_from(-1)
  ELSE f32_div(f32_from(u.val), I16_MAX)

\* SimPlay ending the rollout as a draw on a position without actions
SimPlay_nopanic ==
  /\ pc = "sim_play"
  /\ IF actions(state) = <<>>
     THEN /\ frame' = [frame EXCEPT !.result = f32_zero]
          /\ pc' = "sim_undo"
          /\ UNCHANGED <<state, plays>>
     ELSE \E action \in 1..Len(actions(state)) :
            LET next == play(state, action)
            IN /\ state' = next
               /\ plays' = plays + 1
               /\ IF utility(next) = Unknown
                  THEN /\ frame' = [frame EXCEPT !.plys = @ + 1]
                       /\ pc' = "sim_play"
                  ELSE /\ frame' = [frame EXCEPT
                                      !.plys = @ + 1,
                                      !.result = rollout_result(utility(next),
                                                                frame.node_player)]
                       /\ pc' = "sim_undo"
  /\ UNCHANGED <<game, nodes, call, ret, entry, nodes0, expanded, undos, steps,
                 locks>>

\* one turn of 'simulation: pick a random action, play it, look at utility()
SimPlay ==
  /\ pc = "sim_play"
  /\ IF actions(state) = <<>>
     THEN \* choose() returns None, unwrap() panics
          /\ pc' = "panic"
          /\ UNCHANGED <<state, frame, plays>>
     ELSE \E action \in 1..Len(actions(state)) :
            LET next == play(state, action)
            IN /\ state' = next
               /\ plays' = plays + 1
               /\ IF utility(next) = Unknown
                  THEN /\ frame' = [frame EXCEPT !.plys = @ + 1]
                       /\ pc' = "sim_play"
                  ELSE /\ frame' = [frame EXCEPT
                                      !.plys = @ + 1,
                                      !.result = rollout_result(utility(next),
                                                                frame.node_player)]
                       /\ pc' = "sim_undo"
  /\ UNCHANGED <<game, nodes, call, ret, entry, nodes0, expanded, undos, steps, locks>>

\* SimUndo undoing once more than it played (0..=plys)
SimUndo_extra ==
  /\ pc = "sim_undo"
  /\ IF frame.plys >= 0
     THEN /\ state' = undo(state)
          /\ undos' = undos + 1
          /\ frame' = [frame EXCEPT !.plys = @ - 1]
          /\ pc' = "sim_undo"
     ELSE /\ frame' = [frame EXCEPT
                         !.approximate_result = f32_add(@, frame.result),
                         !.result = f32_zero,
                                    !.playout = @ + 1]
          /\ pc' = "sim_loop"
          /\ UNCHANGED <<state, undos>>
  /\ UNCHANGED <<game, nodes, call, ret, entry, nodes0, expanded, plays, steps, locks>>

\* for _ in 0..plys { state.undo() }; approximate_result += result
SimUndo ==
  /\ pc = "sim_undo"
  /\ IF frame.plys > 0
     THEN /\ state' = undo(state)
          /\ undos' = undos + 1
          /\ frame' = [frame EXCEPT !.plys = @ - 1]
          /\ pc' = "sim_undo"
     ELSE /\ frame' = [frame EXCEPT
                         !.approximate_result = f32_add(@, frame.result),
                         !.result = f32_zero,
                                    !.playout = @ + 1]
          /\ pc' = "sim_loop"
          /\ UNCHANGED <<state, undos>>
  /\ UNCHANGED <<game, nodes, call, ret, entry, nodes0, expanded, plays, steps, locks>>

----------------------------------------------------------------------------
(* step, continued: expansion and backpropagation *)

\* HashMap::insert: adds the key, or replaces the node of a present key
insert(map, key, node) ==
  [k \in DOMAIN map \cup {key} |-> IF k = key THEN node ELSE map[k]]

Insert ==
  /\ pc = "insert"
  /\ nodes' = insert(nodes, hash(state), MonteCarloNode(frame.utility, 1))
  /\ expanded' = state
  /\ pc' = "backprop"
  /\ UNCHANGED <<game, state, call, frame, ret, entry, nodes0, plays, undos,
                 steps, locks>>

\* let new = match utility { .. }: the f32 of the inserted utility for the
\* mover of an ancestor
observed(u, player) ==
  IF u.tag = "Exact"
  THEN IF u.val = Draw THEN f32_zero
       ELSE IF u.val = player THEN f32_from(1) ELSE f32_from(-1)
  ELSE f32_div(f32_from(u.val), I16_MAX)

\* blend without the division by 2f32
blend_nohalf(approx, new) ==
  as_i16(f32_mul(f32_add(f32_div(f32_from(approx), I16_MAX), new), I16_MAX))

\* ((((*approx as f32 / i16::MAX as f32) + new) / 2f32) * (i16::MAX as f32)) as i16
blend(approx, new) ==
  as_i16(f32_mul(f32_div(f32_add(f32_div(f32_from(approx), I16_MAX), new), 2),
                 I16_MAX))

\* backpropagate without node.visits += 1
backpropagate_novisit(node, u, player) ==
  MonteCarloNode(
    IF node.utility.tag = "Approximate"
    THEN Approximate(blend(node.utility.val, observed(u, player)))
    ELSE node.utility,
    node.visits)

\* node.visits += 1; match &mut node.utility { Approximate(approx) => .. }
backpropagate(node, u, player) ==
  MonteCarloNode(
    IF node.utility.tag = "Approximate"
    THEN Approximate(blend(node.utility.val, observed(u, player)))
    ELSE node.utility,
    node.visits + 1)

\* while let Some(node) = visited.pop() { state.undo(); ... }
Backprop ==
  /\ pc = "backprop"
  /\ IF frame.visited = <<>>
     THEN /\ Return
          /\ UNCHANGED <<state, undos, locks>>
     ELSE /\ frame' = [frame EXCEPT !.node = Last(frame.visited),
                                    !.visited = Front(@)]
          /\ state' = undo(state)
          /\ undos' = undos + 1
          \* let mut node = node.lock().unwrap();
          /\ lock(Last(frame.visited))
          /\ pc' = "backprop_node"
  /\ UNCHANGED <<game, nodes, call, ret, entry, nodes0, expanded, plays, steps>>

\* the rest of the body, under the guard of the node, which goes out of scope
\* at the end of the body
BackpropNode ==
  /\ pc = "backprop_node"
  /\ nodes' = [nodes EXCEPT ![frame.node] =
                 backpropagate(@, frame.utility, current_player(state))]
  /\ drop_guard
  /\ pc' = "backprop"
  /\ UNCHANGED <<game, state, call, frame, ret, ghost, steps>>

----------------------------------------------------------------------------
(* MonteCarloTree::best_action *)

BestActionCall ==
  /\ Begin("best_action", "ba_for")
  /\ UNCHANGED <<game, nodes, state, ret, steps, locks>>

\* for action in state.actions() { state.play(&action); ...
BaFor ==
  /\ pc = "ba_for"
  /\ IF frame.i = 0
     THEN \* let current_player = state.current_player(); enter the loop
          /\ frame' = [frame EXCEPT !.current_player = current_player(state),
                                    !.i = 1]
          /\ UNCHANGED <<state, plays, pc, ret, locks>>
     ELSE IF frame.i <= Len(actions(state))
     THEN /\ state' = play(state, frame.i)
          /\ plays' = plays + 1
          \* if let Some(child) = ..get(..) { let child = child.lock().unwrap();
          /\ IF hash(state') \in DOMAIN nodes
             THEN lock(hash(state')) ELSE UNCHANGED locks
          /\ pc' = "ba_child"
          /\ UNCHANGED <<frame, ret>>
     ELSE /\ ret' = frame.best_action
          /\ Return
          /\ UNCHANGED <<state, plays, locks>>
  /\ UNCHANGED <<game, nodes, call, entry, nodes0, expanded, undos, steps>>

\* is_win_for never taking the arm
is_win_for_never(u, player) == FALSE

\* is_win_for without the guard p == current_player
is_win_for_any(u, player) == u.tag = "Exact" /\ u.val # Draw

\* the arm Utility::Exact(ExactUtility::Win(p)) if p == current_player
is_win_for(u, player) == u.tag = "Exact" /\ u.val # Draw /\ u.val = player

\* ba_update never keeping a win of the other player
ba_update_noloss(f, child_utility, action) ==
  CASE child_utility.tag = "Approximate" ->
         IF OptionLt(f.best_exploitation, Some(child_utility.val))
         THEN [f EXCEPT !.best_exploitation = Some(child_utility.val),
                        !.best_action = Some(action)]
         ELSE f
    [] child_utility.tag = "Exact" /\ child_utility.val # Draw -> f
    [] OTHER ->
         IF f.best_exploitation = None
         THEN [f EXCEPT !.best_action = Some(action)] ELSE f

\* ba_update taking a win of the other player like a draw
ba_update_lossasdraw(f, child_utility, action) ==
  CASE child_utility.tag = "Approximate" ->
         IF OptionLt(f.best_exploitation, Some(child_utility.val))
         THEN [f EXCEPT !.best_exploitation = Some(child_utility.val),
                        !.best_action = Some(action)]
         ELSE f
    [] OTHER ->
         IF f.best_exploitation = None
         THEN [f EXCEPT !.best_action = Some(action)] ELSE f

\* ba_update with the comparison of scores reversed
ba_update_min(f, child_utility, action) ==
  CASE child_utility.tag = "Approximate" ->
         IF OptionLt(Some(child_utility.val), f.best_exploitation)
            \/ f.best_exploitation = None
         THEN [f EXCEPT !.best_exploitation = Some(child_utility.val),
                        !.best_action = Some(action)]
         ELSE f
    [] child_utility.tag = "Exact" /\ child_utility.val # Draw ->
         IF f.best_action = None
         THEN [f EXCEPT !.best_action = Some(action)] ELSE f
    [] OTHER ->
         IF f.best_exploitation = None
         THEN [f EXCEPT !.best_action = Some(action)] ELSE f

\* what the other arms make of best_action and best_exploitation
ba_update(f, child_utility, action) ==
  CASE child_utility.tag = "Approximate" ->
         IF OptionLt(f.best_exploitation, Some(child_utility.val))
         THEN [f EXCEPT !.best_exploitation = Some(child_utility.val),
                        !.best_action = Some(action)]
         ELSE f
    [] child_utility.tag = "Exact" /\ child_utility.val # Draw ->
         \* a win of the other player (the mover's win returns at once)
         IF f.best_action = None
         THEN [f EXCEPT !.best_action = Some(action)] ELSE f
    [] OTHER ->
         \* Exact(Draw), Unknown
         IF f.best_exploitation = None
         THEN [f EXCEPT !.best_action = Some(action)] ELSE f

\* BaChild returning a proven win without its state.undo()
BaChild_noundo ==
  /\ pc = "ba_child"
  /\ IF hash(state) \in DOMAIN nodes
     THEN LET u == nodes[hash(state)].utility
          IN /\ drop_guard
             /\ IF is_win_for(u, frame.current_player)
                THEN /\ ret' = Some(frame.i)
                     /\ Return
                     /\ UNCHANGED <<state, undos>>
                ELSE /\ frame' = [ba_update(frame, u, frame.i)
                                    EXCEPT !.i = @ + 1]
                     /\ state' = undo(state)
                     /\ undos' = undos + 1
                     /\ pc' = "ba_for"
                     /\ UNCHANGED ret
     ELSE /\ frame' = [(IF frame.best_exploitation = None
                        THEN [frame EXCEPT !.best_action = Some(frame.i)]
                        ELSE frame) EXCEPT !.i = @ + 1]
          /\ state' = undo(state)
          /\ undos' = undos + 1
          /\ pc' = "ba_for"
          /\ UNCHANGED <<ret, locks>>
  /\ UNCHANGED <<game, nodes, call, entry, nodes0, expanded, plays, steps>>

\* the body of the loop, the handle being on the child
BaChild ==
  /\ pc = "ba_child"
  /\ state' = undo(state)
  /\ undos' = undos + 1
  /\ IF hash(state) \in DOMAIN nodes
     THEN LET u == nodes[hash(state)].utility
          IN \* the guard of the child lives to the end of the if let block,
             \* or to the return
             /\ drop_guard
             /\ IF is_win_for(u, frame.current_player)
                THEN \* state.undo(); return Some(action)
                     /\ ret' = Some(frame.i)
                     /\ Return
                ELSE /\ frame' = [ba_update(frame, u, frame.i)
                                    EXCEPT !.i = @ + 1]
                     /\ pc' = "ba_for"
                     /\ UNCHANGED ret
     ELSE \* no node: else if best_exploitation.is_none()
          /\ frame' = [(IF frame.best_exploitation = None
                        THEN [frame EXCEPT !.best_action = Some(frame.i)]
                        ELSE frame) EXCEPT !.i = @ + 1]
          /\ pc' = "ba_for"
          /\ UNCHANGED <<ret, locks>>
  /\ UNCHANGED <<game, nodes, call, entry, nodes0, expanded, plays, steps>>

----------------------------------------------------------------------------

Next ==
  \/ CallerPlay \/ CallerUndo
  \/ StepCall \/ SelLoop \/ SelVisits \/ SelFor \/ SelChild \/ SelAfter
  \/ SelSolve \/ SelBack
  \/ Expand \/ SimLoop \/ SimPlay \/ SimUndo \/ Insert \/ Backprop
  \/ BackpropNode
  \/ BestActionCall \/ BaFor \/ BaChild

Spec == Init /\ [][Next]_vars

\* a caller that calls step again and again on the position it was given
NextSearch ==
  \/ StepCall \/ SelLoop \/ SelVisits \/ SelFor \/ SelChild \/ SelAfter
  \/ SelSolve \/ SelBack
  \/ Expand \/ SimLoop \/ SimPlay \/ SimUndo \/ Insert \/ Backprop
  \/ BackpropNode

\* a call of step between its entry and its return or panic
Running == call = "step" /\ pc \notin {"idle", "done", "panic"}

\* the places of a call of step
StepLabels ==
  {"sel_loop", "sel_visits", "sel_for", "sel_child", "sel_after", "sel_solve",
   "sel_back", "expand", "sim_loop", "sim_play", "sim_undo", "insert",
   "backprop", "backprop_node", "done", "panic"}

\* a step of a running call, each of which moves pc, plays an action or undoes
\* one
Advance ==
  /\ Running
  /\ pc' \in StepLabels
  /\ plays' \in {plays, plays + 1}
  /\ undos' \in {undos, undos + 1}

\* step is synchronous, with no suspension point and nothing to wait for: a
\* call that is running takes its next step
SpecSearch ==
  Init /\ [][NextSearch]_vars /\ WF_<<pc, plays, undos>>(Advance)

----------------------------------------------------------------------------
(* best_action over the trees that step calls on single positions leave *)

\* heuristic scores utility() may report
Scores == {-20000, 0, 20000}

\* root with three successors, each terminal or reporting a heuristic score
GamesBA ==
  LET a == [p \in Pos |-> CASE p = 1 -> <<2, 3, 4>> [] OTHER -> <<>>]
      b == [p \in Pos |-> CASE p = 1 -> <<2, 3, 4>> [] p = 5 -> <<>>
                            [] OTHER -> <<5>>]
      Reports == {Exact(o) : o \in Outcomes} \cup {Approximate(v) : v \in Scores}
  IN { [actions |-> [p \in Pos |-> IF u[p].tag = "Exact" THEN a[p] ELSE b[p]],
        player |-> [p \in Pos |-> IF p = 1 THEN 1 ELSE 2],
        utility |-> [p \in Pos |-> CASE p = 1 -> Unknown
                                     [] p = 5 -> Exact(Draw)
                                     [] OTHER -> u[p]]] :
       u \in [Pos -> Reports] }

\* the table after one step call on each position of S, the node of each
\* being inserted with the utility the game reports and one visit
TreeOn(g, S) == [p \in S |-> MonteCarloNode(g.utility[p], 1)]

InitBA ==
  /\ game \in GamesBA
  /\ \E S \in SUBSET {2, 3, 4} : nodes = TreeOn(game, S)
  /\ state = <<1>>
  /\ pc = "idle"
  /\ call = "none"
  /\ frame = NoFrame
  /\ ret = None
  /\ entry = <<>>
  /\ nodes0 = <<>>
  /\ expanded = <<>>
  /\ plays = 0
  /\ undos = 0
  /\ steps = 0
  /\ locks = <<>>

NextBA == CallerPlay \/ CallerUndo \/ BestActionCall \/ BaFor \/ BaChild

SpecBA == InitBA /\ [][NextBA]_vars

----------------------------------------------------------------------------
(* Properties *)

StepReturned == pc = "done" /\ call = "step"
BestActionReturned == pc = "done" /\ call = "best_action"

IsPrefix(s, t) == Len(s) <= Len(t) /\ SubSeq(t, 1, Len(s)) = s

\* C1: when step returns, the handle is the handle that was passed in and
\* the call issued as many undo() as play()
StateRestored == StepReturned => state = entry /\ undos = plays

\* a step call solved a node, undid the move that led to it, descended into
\* another successor, inserted a node two plies below the position given, and
\* returned
StateRestoredWitness ==
  /\ StepReturned
  /\ expanded # <<>>
  /\ Len(expanded) = Len(entry) + 2
  /\ \E k \in DOMAIN nodes0 :
       nodes0[k].utility.tag = "Approximate" /\ nodes[k].utility.tag = "Exact"

\* C2: at every point of a step or best_action call the undo() calls issued
\* never exceed the play() calls issued, and the handle is the handle given
\* with exactly the moves played and not yet undone on top of it
UndoNeverExceedsPlay ==
  call # "none" =>
    /\ undos <= plays
    /\ Len(state) = Len(entry) + plays - undos
    /\ IsPrefix(entry, state)

\* a step call has solved a node below the position given and has undone the
\* move that led to it, being back on the position given with no move left
UndoNeverExceedsPlayWitness ==
  /\ call = "step"
  /\ pc = "sel_loop"
  /\ plays > 0
  /\ undos = plays
  /\ frame.visited = <<>>
  /\ \E k \in DOMAIN nodes : k \in DOMAIN nodes0 /\ nodes[k] # nodes0[k]

\* C3: a node holding Exact(v) holds Exact(v) after every further step of the
\* engine
MonotonicSolving ==
  [][\A k \in DOMAIN nodes :
       nodes[k].utility.tag = "Exact" =>
         k \in DOMAIN nodes' /\ nodes'[k].utility = nodes[k].utility]_vars

\* selection ran again on a node that was already solved and the step call
\* returned, having written its utility once more
MonotonicSolvingWitness ==
  /\ StepReturned
  /\ expanded = <<>>
  /\ hash(entry) \in DOMAIN nodes0
  /\ nodes0[hash(entry)].utility.tag = "Exact"
  /\ actions(entry) # <<>>

\* C4: a step call that reaches expansion adds exactly one key to the node
\* table and adds exactly 1 to the visit count of every node on the path from
\* the position given to the parent of the inserted position
SingleInsertion ==
  (StepReturned /\ expanded # <<>>) =>
    /\ hash(expanded) \notin DOMAIN nodes0
    /\ DOMAIN nodes = DOMAIN nodes0 \cup {hash(expanded)}
    /\ \A j \in Len(entry)..(Len(expanded) - 1) :
         /\ expanded[j] \in DOMAIN nodes0
         /\ nodes[expanded[j]].visits = nodes0[expanded[j]].visits + 1

\* a step call inserted a node two plies below the position given
SingleInsertionWitness ==
  /\ StepReturned
  /\ expanded # <<>>
  /\ Len(expanded) = Len(entry) + 2
  /\ \A j \in Len(entry)..(Len(expanded) - 1) : nodes0[expanded[j]].visits >= 2

\* the game-theoretic value of a position: the best outcome, for its mover,
\* among the values of its successors
RECURSIVE Minimax(_)
Minimax(p) ==
  IF game.actions[p] = <<>> THEN game.utility[p].val
  ELSE LET values == {Minimax(game.actions[p][j]) : j \in 1..Len(game.actions[p])}
           mover == game.player[p]
       IN IF Win(mover) \in values THEN Win(mover)
          ELSE IF Draw \in values THEN Draw
          ELSE \* wins of other players only: the first one in actions() order
               Minimax(game.actions[p][1])

\* C5: every node holding Exact(v) holds the game-theoretic value of its
\* position, and a step call that returns without inserting anything leaves
\* the position it was given holding Exact
ExactIsMinimax ==
  /\ \A k \in DOMAIN nodes :
       nodes[k].utility.tag = "Exact" => nodes[k].utility.val = Minimax(k)
  /\ (StepReturned /\ expanded = <<>>) =>
       /\ hash(entry) \in DOMAIN nodes
       /\ nodes[hash(entry)].utility = Exact(Minimax(hash(entry)))

\* the first position of a game of depth two was searched until a step call
\* found nothing left to insert: it is solved, through a solved successor
ExactIsMinimaxWitness ==
  /\ StepReturned
  /\ expanded = <<>>
  /\ entry = <<1>>
  /\ nodes[1].utility.tag = "Exact"
  /\ \E j \in 1..Len(game.actions[1]) :
       LET c == game.actions[1][j]
       IN game.actions[c] # <<>> /\ nodes[c].utility.tag = "Exact"
                                 /\ nodes0[c].utility.tag = "Approximate"

\* the successor position an action of the handle's position leads to
child_of(action) == game.actions[hash(state)][action]

\* the utility the tree holds for the successor of an action, Unknown if none
held(action) ==
  IF child_of(action) \in DOMAIN nodes
  THEN nodes[child_of(action)].utility ELSE Unknown

Legal == 1..Len(actions(state))
mover == current_player(state)
Wins == {a \in Legal : held(a) = Exact(Win(mover))}
Losses == {a \in Legal : held(a).tag = "Exact" /\ held(a).val \notin {Draw, mover}}
Approximates == {a \in Legal : held(a).tag = "Approximate"}
Min(S) == CHOOSE x \in S : \A y \in S : x <= y

\* C6: if some action leads to a node holding Exact(Win(mover)), best_action
\* returns the first such action
GreedyWin ==
  (BestActionReturned /\ Wins # {}) => ret = Some(Min(Wins))

\* best_action returned a proven win that is not the first action, after
\* passing over an Approximate successor
GreedyWinWitness ==
  /\ BestActionReturned
  /\ Wins # {}
  /\ ret = Some(Min(Wins))
  /\ \E a \in Approximates : a < Min(Wins)

\* C7: best_action returns None exactly when actions() is empty, and a legal
\* action otherwise
NoneIffTerminal ==
  BestActionReturned =>
    /\ ret = None <=> actions(state) = <<>>
    /\ ret # None => unwrap(ret) \in Legal

\* best_action returned an action on a position whose successors are all
\* proven losses
NoneIffTerminalWitness ==
  /\ BestActionReturned
  /\ Legal # {}
  /\ Losses = Legal
  /\ ret # None

\* C8: best_action returns a proven loss only when every action is a proven
\* loss
LossLastResort ==
  (BestActionReturned /\ ret # None /\ unwrap(ret) \in Losses) => Losses = Legal

\* the first action is a proven loss and best_action returned a later action
\* that is not
LossLastResortWitness ==
  /\ BestActionReturned
  /\ 1 \in Losses
  /\ ret # None
  /\ unwrap(ret) \notin Losses
  /\ unwrap(ret) \notin Wins

\* two candidates of equal priority: equal Approximate scores, or each a
\* proven draw or unexplored while no successor is Approximate
SamePriority(a, b) ==
  \/ /\ held(a).tag = "Approximate"
     /\ held(a) = held(b)
  \/ /\ Approximates = {}
     /\ held(a) \in {Exact(Draw), Unknown}
     /\ held(b) \in {Exact(Draw), Unknown}

\* C9: among candidates of equal priority best_action returns the one met
\* first in actions() order
FirstAmongTies ==
  (BestActionReturned /\ ret # None /\ Wins = {}) =>
    \A a \in Legal : a < unwrap(ret) => ~SamePriority(a, unwrap(ret))

BestActionPure ==
  /\ call = "best_action" => nodes = nodes0
  /\ BestActionReturned => state = entry /\ undos = plays

\* best_action returned by the return for a proven win, on a table that step
\* calls filled, with actions left that it did not try
BestActionPureWitness ==
  /\ BestActionReturned
  /\ steps > 0
  /\ ret # None
  /\ held(unwrap(ret)) = Exact(Win(mover))
  /\ unwrap(ret) < Len(actions(state))
  /\ plays = unwrap(ret)

\* the heuristic values the game reports are all within -32767..32767
HeuristicsInRange ==
  \A p \in Pos :
    game.utility[p].tag = "Approximate" =>
      game.utility[p].val \in -I16_MAX..I16_MAX

\* C12: if the game reports heuristic values within -32767..32767 only, every
\* Approximate value a node holds is within -32767..32767
ApproximateInRange ==
  HeuristicsInRange =>
    \A k \in DOMAIN nodes :
      nodes[k].utility.tag = "Approximate" =>
        nodes[k].utility.val \in -I16_MAX..I16_MAX

\* a step call blended a new observation into a node that held the least
\* value of the range, and the node still holds it
ApproximateInRangeWitness ==
  /\ HeuristicsInRange
  /\ StepReturned
  /\ expanded # <<>>
  /\ \E k \in DOMAIN nodes0 :
       /\ nodes0[k].utility = Approximate(-I16_MAX)
       /\ nodes[k].visits = nodes0[k].visits + 1
       /\ nodes[k].utility = Approximate(-I16_MAX)

\* C13: at every point of a step or best_action call at most one guard of a
\* node mutex is alive, so that no lock() is issued while a guard is alive
NoNestedLock == Len(locks) <= 1

\* backpropagation holds the guard of an ancestor two plies above the
\* inserted node, after the selection took and dropped the guards of the
\* positions it went through
NoNestedLockWitness ==
  /\ call = "step"
  /\ pc = "backprop_node"
  /\ locks = <<frame.node>>
  /\ Len(expanded) = Len(state) + 2

\* the actions of the handle's position that win at once for its mover and
\* whose successor a step call has expanded
ExpandedWins ==
  {a \in Legal : /\ game.utility[child_of(a)] = Exact(Win(mover))
                 /\ child_of(a) \in DOMAIN nodes}

\* C14: once a step call has expanded a successor that wins at once for the
\* mover, every best_action call on the position, whatever step calls came
\* in between, returns an action that wins for the mover
WinKept ==
  (BestActionReturned /\ ExpandedWins # {}) =>
    /\ ret # None
    /\ unwrap(ret) \in Legal
    /\ held(unwrap(ret)) = Exact(Win(mover))
    /\ Minimax(child_of(unwrap(ret))) = Win(mover)

\* best_action returned the winning action, which is not the first one, after
\* further step calls had expanded a later successor and solved the position
WinKeptWitness ==
  /\ BestActionReturned
  /\ ExpandedWins # {}
  /\ ret = Some(Min(ExpandedWins))
  /\ 1 \notin Wins
  /\ \E b \in Legal : b > Min(ExpandedWins) /\ child_of(b) \in DOMAIN nodes
  /\ hash(state) \in DOMAIN nodes
  /\ nodes[hash(state)].utility = Exact(Win(mover))

\* C15: no step of the engine removes a key from the node table; the table
\* changes its keys only by the insertion of step, at the key of the handle,
\* which is absent from the table then, every node already there being left
\* as it is
NodeCreatedOnce ==
  [][/\ DOMAIN nodes \subseteq DOMAIN nodes'
     /\ (pc = "insert" \/ DOMAIN nodes' # DOMAIN nodes) =>
          /\ pc = "insert"
          /\ hash(state) \notin DOMAIN nodes
          /\ DOMAIN nodes' = DOMAIN nodes \cup {hash(state)}
          /\ \A k \in DOMAIN nodes : nodes'[k] = nodes[k]]_vars

\* step has just inserted a node below two nodes that earlier step calls had
\* visited more than once, both holding what they held
NodeCreatedOnceWitness ==
  /\ call = "step"
  /\ pc = "backprop"
  /\ expanded = state
  /\ hash(expanded) \notin DOMAIN nodes0
  /\ Len(frame.visited) = 2
  /\ \A j \in 1..2 :
       /\ nodes0[frame.visited[j]].visits >= 2
       /\ nodes[frame.visited[j]] = nodes0[frame.visited[j]]

\* C16: every node of the table holds Exact or Approximate, never Unknown
NeverUnknown ==
  \A k \in DOMAIN nodes : nodes[k].utility.tag \in {"Exact", "Approximate"}

\* step inserted, below the position given, a node for a position on which
\* the game reports Unknown: it holds the Approximate value of the rollouts
NeverUnknownWitness ==
  /\ StepReturned
  /\ expanded # <<>>
  /\ Len(expanded) > Len(entry)
  /\ utility(expanded) = Unknown
  /\ nodes[hash(expanded)].utility.tag = "Approximate"

\* the utility the tree holds for the successor of an action of position p
held_from(p, action) ==
  IF game.actions[p][action] \in DOMAIN nodes
  THEN nodes[game.actions[p][action]].utility ELSE Unknown

\* C17, as claimed: once the scan of step has met a successor holding
\* Exact(Win(mover)) it scans no further action, and it leaves the scan with
\* no Approximate successor to descend into
WinAbortsScan ==
  call = "step" =>
    /\ pc = "sel_child" =>
         \A a \in 1..(frame.i - 1) :
           held_from(frame.node, a) # Exact(Win(frame.current_player))
    /\ (pc = "sel_after" /\ Wins # {}) => frame.best_action = None

\* C17, amended: a successor holding Exact(Win(mover)) only becomes the best
\* exact outcome of the scan, which goes through every action; after it step
\* descends into an Approximate successor if there is one, and goes on to
\* solve the node only if there is none
WinOnlyRecorded ==
  [][(call = "step" /\ pc = "sel_after" /\ Wins # {}) =>
       /\ frame.i = Len(actions(state)) + 1
       /\ frame.best_exact = Some(Win(mover))
       /\ IF Approximates # {}
          THEN /\ pc' = "sel_loop"
               /\ \E b \in Approximates : state' = play(state, b)
          ELSE pc' = "sel_solve"]_vars

\* the scan is over on a position whose first successor holds a win for the
\* mover: a later successor, holding Approximate, is the action to descend
WinOnlyRecordedWitness ==
  /\ call = "step"
  /\ pc = "sel_after"
  /\ 1 \in Wins
  /\ frame.best_exact = Some(Win(mover))
  /\ frame.best_action # None
  /\ unwrap(frame.best_action) > 1
  /\ unwrap(frame.best_action) \in Approximates

\* every action of position p leads to a node holding Exact
AllExact(p) ==
  /\ game.actions[p] # <<>>
  /\ \A j \in 1..Len(game.actions[p]) : held_from(p, j).tag = "Exact"

\* the best outcome for the mover of p among the Exact successors: its win,
\* else a draw, else the win of another player that comes first
BestOutcome(p) ==
  LET n == Len(game.actions[p])
      vals == {held_from(p, j).val : j \in 1..n}
  IN IF Win(game.player[p]) \in vals THEN Win(game.player[p])
     ELSE IF Draw \in vals THEN Draw
     ELSE held_from(p, 1).val

\* C18: a node that held Approximate comes to hold Exact only by the solve
\* write of step, which happens only when every action of the node's position
\* leads to a node holding Exact, and writes the best outcome for the mover
\* among them: its win, else a draw, else the first win of another player
SolveWhenAllExact ==
  [][/\ pc = "sel_solve" =>
          /\ AllExact(frame.node)
          /\ nodes'[frame.node].utility = Exact(BestOutcome(frame.node))
     /\ \A k \in DOMAIN nodes :
          (nodes[k].utility.tag # "Exact" /\ nodes'[k].utility.tag = "Exact")
            => pc = "sel_solve" /\ k = frame.node]_vars

\* step is about to solve an Approximate node of player 1 whose successors
\* hold a win of player 2 and then a win of player 3: the first is kept
SolveWhenAllExactWitness ==
  /\ call = "step"
  /\ pc = "sel_solve"
  /\ nodes[frame.node].utility.tag = "Approximate"
  /\ game.player[frame.node] = 1
  /\ Len(game.actions[frame.node]) = 2
  /\ held_from(frame.node, 1) = Exact(Win(2))
  /\ held_from(frame.node, 2) = Exact(Win(3))
  /\ frame.best_exact = Some(Win(2))

\* C19: the nodes step goes through below the position given, and all the
\* nodes it backpropagates into, hold Approximate; a node that holds Exact,
\* from an earlier step call or from this one, has the visit count it had
\* when the call began
ExactNotSearched ==
  call = "step" =>
    /\ \A j \in 1..Len(frame.visited) :
         (j > 1 \/ pc \in {"insert", "backprop", "backprop_node"}) =>
           nodes[frame.visited[j]].utility.tag = "Approximate"
    /\ pc = "backprop_node" => nodes[frame.node].utility.tag = "Approximate"
    /\ \A k \in DOMAIN nodes0 :
         nodes[k].utility.tag = "Exact" => nodes[k].visits = nodes0[k].visits

\* a step call solved a node, left it, inserted a node under another
\* successor and returned: the solved node has the visits it had, the node of
\* the position given one more
ExactNotSearchedWitness ==
  /\ StepReturned
  /\ expanded # <<>>
  /\ hash(entry) \in DOMAIN nodes0
  /\ nodes[hash(entry)].visits = nodes0[hash(entry)].visits + 1
  /\ \E k \in DOMAIN nodes0 :
       /\ nodes0[k].utility.tag = "Approximate"
       /\ nodes[k].utility.tag = "Exact"
       /\ nodes[k].visits = nodes0[k].visits

\* the observed scalar of an inserted utility for a mover, in units of
\* 1/32767
Scalar(u, player) ==
  IF u.tag = "Exact"
  THEN IF u.val = Draw THEN 0
       ELSE IF u.val = Win(player) THEN I16_MAX ELSE -I16_MAX
  ELSE u.val

\* C20: backpropagation takes an ancestor holding Approximate(a) to the
\* Approximate value within one unit of the mean of a and the observed scalar
\* (in units of 1/32767), whatever the visit count, which it increments; a
\* win of the ancestor's mover never lowers a and a win of another player
\* never raises it
UnweightedMean ==
  [][(pc = "backprop_node" /\ nodes[frame.node].utility.tag = "Approximate") =>
       LET a == nodes[frame.node].utility.val
           new == nodes'[frame.node]
           r == new.utility.val
           w == Scalar(frame.utility, current_player(state))
       IN /\ new.utility.tag = "Approximate"
          /\ new.visits = nodes[frame.node].visits + 1
          /\ Abs(2 * r - (a + w)) <= 2
          /\ w = I16_MAX => r >= a
          /\ w = -I16_MAX => r <= a]_vars

\* step is on a position without actions that has a node, in the selection,
\* or on a position without actions in a rollout (where utility() is Unknown),
\* or has halted
Doomed ==
  /\ call = "step"
  /\ \/ pc = "sel_loop" /\ hash(state) \in DOMAIN nodes /\ actions(state) = <<>>
     \/ pc \in {"sel_visits", "sel_for", "sel_after"} /\ actions(state) = <<>>
     \/ pc = "sim_play" /\ actions(state) = <<>>
     \/ pc = "panic"

\* C21: once the selection of step is on a position that has a node and no
\* action, or a rollout on a position with Unknown utility and no action,
\* step goes to its fatal halt and nowhere else: it never returns
FatalHalt ==
  [][Doomed => (Doomed' /\ pc' # "done")]_vars

\* a rollout of step played its way to a position with Unknown utility and no
\* action, and step has halted there
FatalHaltWitness ==
  /\ call = "step"
  /\ pc = "panic"
  /\ frame.node_player # 0
  /\ frame.plys > 0
  /\ utility(state) = Unknown
  /\ actions(state) = <<>>

\* x is a whole number (of the size of a count of playouts)
IsWhole(x) == x.e >= 0 \/ (x.e > -24 /\ x.m % 2^(-x.e) = 0)

\* step is about to turn the sum of its rollouts into an Approximate value
SimConverts ==
  call = "step" /\ pc = "sim_loop" /\ frame.playout = simulations_per_node

\* backpropagation is about to blend into a node holding Approximate
BlendConverts ==
  /\ call = "step"
  /\ pc = "backprop_node"
  /\ nodes[frame.node].utility.tag = "Approximate"

\* C22, as claimed: the Approximate value stored for the mean of the rollouts,
\* and for the mean of a blend, is the integer nearest to the scalar times
\* 32767
StoredIsRounded ==
  [][/\ SimConverts =>
          frame'.utility.val =
            f32_nearest(f32_mul(f32_div(frame.approximate_result,
                                        simulations_per_node), I16_MAX))
     /\ BlendConverts =>
          nodes'[frame.node].utility.val =
            f32_nearest(
              f32_mul(f32_div(f32_add(f32_div(f32_from(nodes[frame.node].utility.val),
                                              I16_MAX),
                                      observed(frame.utility,
                                               current_player(state))), 2),
                      I16_MAX))]_vars

\* C22, amended: the stored value is the scalar times 32767 cut towards zero:
\* for rollouts that sum to the whole number S, S * 32767 / playouts without
\* its fraction; for a blend of a with the scalar w / 32767, a value of the
\* sign of a + w, not above (a + w) / 2 in magnitude and less than one unit
\* and a half below it
StoredIsTruncated ==
  [][/\ (SimConverts /\ IsWhole(frame.approximate_result)) =>
          frame'.utility.val =
            TruncDiv(as_i16(frame.approximate_result) * I16_MAX,
                     simulations_per_node)
     /\ BlendConverts =>
          LET a == nodes[frame.node].utility.val
              r == nodes'[frame.node].utility.val
              w == Scalar(frame.utility, current_player(state))
          IN /\ (r > 0 => a + w > 0) /\ (r < 0 => a + w < 0)
             /\ 2 * Abs(r) <= Abs(a + w)
             /\ Abs(a + w) <= 2 * Abs(r) + 2]_vars

\* the rollouts of step summed to a whole number above zero whose mean times
\* 32767 has a fraction, and the utility to insert is that value without it
StoredIsTruncatedWitness ==
  /\ call = "step"
  /\ pc = "insert"
  /\ frame.node_player # 0
  /\ IsWhole(frame.approximate_result)
  /\ as_i16(frame.approximate_result) > 0
  /\ (as_i16(frame.approximate_result) * I16_MAX) % simulations_per_node # 0
  /\ frame.utility =
       Approximate(TruncDiv(as_i16(frame.approximate_result) * I16_MAX,
                            simulations_per_node))

\* the game keeps to what the engine expects of it: utility() is Exact on the
\* positions without actions and on no other
HonoursContract ==
  \A p \in Pos : (game.actions[p] = <<>>) <=> (game.utility[p].tag = "Exact")

\* the node of the position the call was given holds Exact
RootExact ==
  /\ hash(entry) \in DOMAIN nodes
  /\ nodes[hash(entry)].utility.tag = "Exact"

\* C23: on a finite acyclic game that honours the contract, with a root that
\* has actions, every step call on the root returns; it has then either
\* inserted exactly one new key or left the root holding Exact with no key
\* inserted; and once as many calls as keys reachable from the root, plus one,
\* have returned, the root holds Exact, whatever Approximate child selection
\* picked
StepSolvesRoot ==
  /\ []((HonoursContract /\ StepReturned) =>
          /\ \/ /\ DOMAIN nodes0 \subseteq DOMAIN nodes
                /\ Cardinality(DOMAIN nodes \ DOMAIN nodes0) = 1
             \/ /\ DOMAIN nodes = DOMAIN nodes0
                /\ RootExact
          /\ steps >= Cardinality(Reachable(game.actions)) + 1 => RootExact)
  /\ ((HonoursContract /\ call = "step") ~> StepReturned)

\* the call that returned is one more than the keys reachable from the root:
\* every call before it inserted a key, and this one, with nothing left to
\* insert, took the root from Approximate to Exact
StepSolvesRootWitness ==
  /\ HonoursContract
  /\ StepReturned
  /\ steps = Cardinality(Reachable(game.actions)) + 1
  /\ DOMAIN nodes = Reachable(game.actions)
  /\ DOMAIN nodes0 = DOMAIN nodes
  /\ nodes0[hash(entry)].utility.tag = "Approximate"
  /\ RootExact

====
